---- MODULE Spec2Model ----
(***************************************************************************)
(* YiriOneBot: the forward websocket adapter (connection lifecycle, frame  *)
(* classification, echo-correlated Calls over the internal event bus) and  *)
(* the message model (MessageChain containment over MessageComponent       *)
(* equality).                                                              *)
(*                                                                         *)
(* The adapter runs on one asyncio event loop: a task runs without         *)
(* interruption from one await that suspends to the next, so every action  *)
(* below is the code between two suspension points.                        *)
(***************************************************************************)
EXTENDS Integers, Sequences, FiniteSets, TLC

(* ------------------------------ bounds -------------------------------- *)

\* inbound frames the peer delivers in one behaviour
MaxFrames == 2
\* connection attempts the reconnect loop makes in one behaviour
MaxAttempts == 2
\* interpreter frames available to a call chain before RecursionError
RecursionLimit == 4
\* components in a MessageChain
MaxChainLen == 2

(* ------------------------------ universe ------------------------------ *)

\* Tasks that may issue one Call each.
Calls == {"c1", "c2"}
\* Correlation tokens (caller supplied, or secrets.token_hex(8)).
Tokens == {"t1", "t2"}
\* A JSON field of an inbound object: missing, JSON null, or a value.
FieldStates == {"absent", "null", "val"}
NoCall == "none"
\* ws_client = None
NoConn == 0

\* The (detail_type, sub_type) of the inbound objects: both present, each
\* one missing or null beside the other present, and both missing.
FieldPairs == {p \in FieldStates \X FieldStates :
                 p[1] = "val" \/ p[2] = "val" \/ p = <<"absent", "absent">>}

\* What ws.recv() can hand to the receive loop: a binary frame that is not
\* UTF-8, a text that is not JSON, a JSON value that is not an object, or
\* a JSON object with its detail_type / sub_type / echo fields.
FrameShapes ==
    [kind : {"badutf8", "notjson", "nonobject"},
     dt : {"absent"}, st : {"absent"}, echo : {"absent"}]
    \cup
    {[kind |-> "object", dt |-> p[1], st |-> p[2], echo |-> e] :
        p \in FieldPairs, e \in {"absent"} \cup Tokens}

NoFrame == [id |-> 0, kind |-> "none", dt |-> "absent", st |-> "absent",
            echo |-> "absent"]

MkFrame(n, s) == [id |-> n, kind |-> s.kind, dt |-> s.dt, st |-> s.st,
                  echo |-> s.echo]

Range(s) == {s[i] : i \in 1..Len(s)}

(* ------------------------------- state -------------------------------- *)

VARIABLES
    rpc,          \* where the _event_receiver task is
    ws_client,    \* self.ws_client: NoConn or a connection handle
    live,         \* the handles whose connection is open (not ws.closed)
    attempts,     \* websockets.connect calls that have resolved
    failures,     \* those of them that raised
    subs,         \* EventBus: subscribers of "onebot_resp", in order
    cpc,          \* where each Call is
    echo,         \* each Call's correlation token
    response,     \* each Call's `response` cell
    received,     \* each Call's `received` asyncio.Event
    sentOn,       \* the handles each Call's request frame was written to
    callSeq,      \* the Calls in the order they were issued
    hcall,        \* the Call the event handler run by the receive loop awaits
    nframes,      \* frames ws.recv() has returned
    lastFrame,    \* the last frame ws.recv() returned
    lastTopics,   \* the topics that frame was published to
    lastInvoked,  \* the onebot_resp subscribers invoked for it, in order
    lastRaised,   \* those of them that raised
    chain,        \* a MessageChain
    obj,          \* the argument of has / __contains__
    hpc,          \* where the evaluation of has / __contains__ is
    depth,        \* interpreter frames it holds
    hres,         \* its outcome
    ser           \* the outcome of serializing the chain's first component

adapterVars == <<rpc, ws_client, live, attempts, failures, subs, cpc, echo,
                 response, received, sentOn, callSeq, hcall, nframes,
                 lastFrame, lastTopics, lastInvoked, lastRaised>>
chainVars == <<chain, obj, hpc, depth, hres, ser>>
vars == <<rpc, ws_client, live, attempts, failures, subs, cpc, echo,
          response, received, sentOn, callSeq, hcall, nframes,
          lastFrame, lastTopics, lastInvoked, lastRaised,
          chain, obj, hpc, depth, hres, ser>>

(* ----------------------- ForwardWebsocketAdapter ---------------------- *)

\* __init__: no connection, the receive task not started, the bus holding
\* only _message_parser on "onebot_message".
AdapterInit ==
    /\ rpc = "disconnected"
    /\ ws_client = NoConn
    /\ live = {}
    /\ attempts = 0
    /\ failures = 0
    /\ subs = <<>>
    /\ cpc = [c \in Calls |-> "idle"]
    /\ echo = [c \in Calls |-> "t1"]
    /\ response = [c \in Calls |-> NoFrame]
    /\ received = [c \in Calls |-> FALSE]
    /\ sentOn = [c \in Calls |-> <<>>]
    /\ callSeq = <<>>
    /\ hcall = NoCall
    /\ nframes = 0
    /\ lastFrame = NoFrame
    /\ lastTopics = {}
    /\ lastInvoked = <<>>
    /\ lastRaised = {}

\* start(): create_task(self._event_receiver()); the task begins at
\* websockets.connect.
Start ==
    /\ rpc = "disconnected"
    /\ rpc' = "connecting"
    /\ UNCHANGED <<ws_client, live, attempts, failures, subs, cpc, echo,
                   response, received, sentOn, callSeq, hcall, nframes,
                   lastFrame, lastTopics, lastInvoked, lastRaised>>
    /\ UNCHANGED chainVars

\* A faulty variant: the new connection is not stored in self.ws_client.
ConnectOk_HandleNotStored ==
    /\ rpc = "connecting"
    /\ attempts < MaxAttempts
    /\ attempts' = attempts + 1
    /\ live' = live \cup {attempts + 1}
    /\ rpc' = "connected"
    /\ UNCHANGED <<ws_client, failures, subs, cpc, echo, response, received,
                   sentOn, callSeq, hcall, nframes, lastFrame, lastTopics,
                   lastInvoked, lastRaised>>
    /\ UNCHANGED chainVars

\* websockets.connect succeeds: self.ws_client = ws, then await ws.recv().
ConnectOk ==
    /\ rpc = "connecting"
    /\ attempts < MaxAttempts
    /\ attempts' = attempts + 1
    /\ ws_client' = attempts + 1
    /\ live' = live \cup {attempts + 1}
    /\ rpc' = "connected"
    /\ UNCHANGED <<failures, subs, cpc, echo, response, received, sentOn,
                   callSeq, hcall, nframes, lastFrame, lastTopics,
                   lastInvoked, lastRaised>>
    /\ UNCHANGED chainVars

\* websockets.connect raises (refused, handshake rejected): nothing in
\* _event_receiver catches it, so it leaves the `while True` and the task ends.
ConnectFail ==
    /\ rpc = "connecting"
    /\ attempts < MaxAttempts
    /\ attempts' = attempts + 1
    /\ failures' = failures + 1
    /\ rpc' = "terminated"
    /\ UNCHANGED <<ws_client, live, subs, cpc, echo, response, received,
                   sentOn, callSeq, hcall, nframes, lastFrame, lastTopics,
                   lastInvoked, lastRaised>>
    /\ UNCHANGED chainVars

\* The peer closes the connection, or the transport fails: the handle
\* becomes closed.  (ConnectionClosedOK and ConnectionClosedError are both
\* ConnectionClosed.)
Close ==
    /\ ws_client \in live
    /\ live' = live \ {ws_client}
    /\ UNCHANGED <<rpc, ws_client, attempts, failures, subs, cpc, echo,
                   response, received, sentOn, callSeq, hcall, nframes,
                   lastFrame, lastTopics, lastInvoked, lastRaised>>
    /\ UNCHANGED chainVars

\* A faulty variant: leaving the connection clears the response topic.
RecvClosed_DropsSubscribers ==
    /\ rpc = "connected"
    /\ ws_client \notin live
    /\ rpc' = "backoff"
    /\ subs' = <<>>
    /\ UNCHANGED <<ws_client, live, attempts, failures, cpc, echo,
                   response, received, sentOn, callSeq, hcall, nframes,
                   lastFrame, lastTopics, lastInvoked, lastRaised>>
    /\ UNCHANGED chainVars

\* ws.recv() raises ConnectionClosed: break, leave the `async with`, and
\* await asyncio.sleep(self.reconnect_interval).  (The `except RuntimeError`
\* branch is not an action: recv raises RuntimeError only when two
\* coroutines call it at once, and this task is its only caller.)
RecvClosed ==
    /\ rpc = "connected"
    /\ ws_client \notin live
    /\ rpc' = "backoff"
    /\ UNCHANGED <<ws_client, live, attempts, failures, subs, cpc, echo,
                   response, received, sentOn, callSeq, hcall, nframes,
                   lastFrame, lastTopics, lastInvoked, lastRaised>>
    /\ UNCHANGED chainVars

\* asyncio.sleep returns: back to the top of the outer `while True`.
SleepDone ==
    /\ rpc = "backoff"
    /\ rpc' = "connecting"
    /\ UNCHANGED <<ws_client, live, attempts, failures, subs, cpc, echo,
                   response, received, sentOn, callSeq, hcall, nframes,
                   lastFrame, lastTopics, lastInvoked, lastRaised>>
    /\ UNCHANGED chainVars


(* ------------------------------ _call_api ----------------------------- *)

\* A faulty variant: the check forgets `or self.ws_client.closed`.
IsConnected_IgnoresClosed == ws_client # NoConn

\* line 80: not (self.ws_client is None or self.ws_client.closed)
IsConnected == ws_client # NoConn /\ ws_client \in live

\* A faulty variant: the handler takes any frame that carries an echo.
response_handler_AnyEcho(c, f) ==
    IF f.echo = "absent" THEN "raise" ELSE "match"

\* lines 86-92, response_handler for Call c invoked with frame f:
\* data["echo"] raises KeyError when the object has no echo; a frame with
\* the Call's token is captured; any other frame is ignored.
response_handler(c, f) ==
    IF f.echo = "absent" THEN "raise"
    ELSE IF f.echo = echo[c] THEN "match"
    ELSE "ignore"

\* A faulty variant: the handler never removes itself.
AfterUnsubscribe_Keeps(registered, matched) == registered

\* line 92: each handler that matched unsubscribes itself.
AfterUnsubscribe(registered, matched) ==
    SelectSeq(registered, LAMBDA c : c \notin matched)

\* A faulty variant: the Call does not wait for the gate.
GateOpen_NoWait(c) == TRUE

\* line 98: await received.wait() returns once the gate is set.
GateOpen(c) == received[c]

\* A faulty variant: the request is sent without the subscriber registered.
CallEnter_NoSubscribe(c, e) ==
    /\ echo' = [echo EXCEPT ![c] = e]
    /\ callSeq' = Append(callSeq, c)
    /\ IF IsConnected
       THEN /\ sentOn' = [sentOn EXCEPT ![c] = Append(@, ws_client)]
            /\ cpc' = [cpc EXCEPT ![c] = "sending"]
            /\ UNCHANGED subs
       ELSE /\ cpc' = [cpc EXCEPT ![c] = "failed"]
            /\ UNCHANGED <<subs, sentOn>>

\* _call_api from its first line to its first suspension: the token, the
\* connection check, the subscription, and ws_client.send writing the
\* request frame (send then suspends until the transport has drained).
CallEnter(c, e) ==
    /\ echo' = [echo EXCEPT ![c] = e]
    /\ callSeq' = Append(callSeq, c)
    /\ IF IsConnected
       THEN /\ subs' = Append(subs, c)
            /\ sentOn' = [sentOn EXCEPT ![c] = Append(@, ws_client)]
            /\ cpc' = [cpc EXCEPT ![c] = "sending"]
       ELSE /\ cpc' = [cpc EXCEPT ![c] = "failed"]
            /\ UNCHANGED <<subs, sentOn>>

\* A faulty variant: a Call that finds no connection resets self.ws_client.
CallStart_ResetsHandle(c, e) ==
    /\ cpc[c] = "idle"
    /\ CallEnter(c, e)
    /\ ws_client' = IF IsConnected THEN ws_client ELSE NoConn
    /\ UNCHANGED <<rpc, live, attempts, failures, response,
                   received, hcall, nframes, lastFrame, lastTopics,
                   lastInvoked, lastRaised>>
    /\ UNCHANGED chainVars

\* A task of its own issues a Call.
CallStart(c, e) ==
    /\ cpc[c] = "idle"
    /\ CallEnter(c, e)
    /\ UNCHANGED <<rpc, ws_client, live, attempts, failures, response,
                   received, hcall, nframes, lastFrame, lastTopics,
                   lastInvoked, lastRaised>>
    /\ UNCHANGED chainVars

\* What the receive loop does when the handler it awaits finishes Call c
\* (returns, or raises into the bus, which isolates it): _message_parser
\* returns and the loop goes back to ws.recv().
HandlerFinished(c) ==
    IF hcall = c
    THEN rpc' = "connected" /\ hcall' = NoCall
    ELSE UNCHANGED <<rpc, hcall>>

\* line 94 completes: the Call goes on to await received.wait().
SendDone(c) ==
    /\ cpc[c] = "sending"
    /\ cpc' = [cpc EXCEPT ![c] = "waiting"]
    /\ UNCHANGED <<rpc, ws_client, live, attempts, failures, subs, echo,
                   response, received, sentOn, callSeq, hcall, nframes,
                   lastFrame, lastTopics, lastInvoked, lastRaised>>
    /\ UNCHANGED chainVars

\* line 94 raises: the connection was lost while send was suspended.  The
\* exception leaves _call_api; nothing removes response_handler.
SendFail(c) ==
    /\ cpc[c] = "sending"
    /\ \E i \in 1..Len(sentOn[c]) : sentOn[c][i] \notin live
    /\ cpc' = [cpc EXCEPT ![c] = "senderr"]
    /\ HandlerFinished(c)
    /\ UNCHANGED <<ws_client, live, attempts, failures, subs, echo,
                   response, received, sentOn, callSeq, nframes,
                   lastFrame, lastTopics, lastInvoked, lastRaised>>
    /\ UNCHANGED chainVars

\* lines 98-100: the gate is set, the Call returns `response`.
CallReturn(c) ==
    /\ cpc[c] = "waiting"
    /\ GateOpen(c)
    /\ cpc' = [cpc EXCEPT ![c] = "returned"]
    /\ HandlerFinished(c)
    /\ UNCHANGED <<ws_client, live, attempts, failures, subs, echo,
                   response, received, sentOn, callSeq, nframes,
                   lastFrame, lastTopics, lastInvoked, lastRaised>>
    /\ UNCHANGED chainVars

(* ------------------------------ EventBus ------------------------------ *)

\* emit(topic, payload) invokes every handler subscribed when it starts, in
\* subscription order; a handler that raises does not stop the others.
BusInvoked(snapshot, f) == snapshot

\* A handler's failure is logged by the bus and does not reach emit's caller.
BusPropagates(snapshot, f) == FALSE

\* Adapter.emit("onebot_event", payload) awaits each handler's completion
\* before it returns to _message_parser.
EmitAwaitsHandlers == TRUE

(* --------------------- receive loop: one frame ------------------------ *)

\* lines 61-62: a binary frame is decoded as UTF-8.
DecodeOk(s) == s.kind # "badutf8"

\* lines 29-38: json.loads succeeds and gives a dict.
ParseOk(s) == s.kind = "object"

\* A faulty variant: `or` in place of `and`.
IsResponseFrame_Either(f) ==
    \/ f.dt \notin {"absent", "null"}
    \/ f.st \notin {"absent", "null"}

\* A faulty variant: a response is also required to carry an echo.
IsResponseFrame_NeedsEcho(f) ==
    /\ f.dt \notin {"absent", "null"}
    /\ f.st \notin {"absent", "null"}
    /\ f.echo # "absent"

\* lines 40-43: both detail_type and sub_type are present and not None.
IsResponseFrame(f) ==
    /\ f.dt \notin {"absent", "null"}
    /\ f.st \notin {"absent", "null"}

CanRecv ==
    /\ rpc = "connected"
    /\ ws_client \in live
    /\ nframes < MaxFrames

\* bytes.decode raises UnicodeDecodeError, which is neither RuntimeError nor
\* ConnectionClosed: it leaves both loops, the `async with` closes the
\* connection, and the task ends.
RecvUndecodable(s) ==
    /\ CanRecv
    /\ ~DecodeOk(s)
    /\ nframes' = nframes + 1
    /\ lastFrame' = MkFrame(nframes + 1, s)
    /\ lastTopics' = {}
    /\ lastInvoked' = <<>>
    /\ lastRaised' = {}
    /\ live' = live \ {ws_client}
    /\ rpc' = "terminated"
    /\ UNCHANGED <<ws_client, attempts, failures, subs, cpc, echo, response,
                   received, sentOn, callSeq, hcall>>
    /\ UNCHANGED chainVars

\* _message_parser logs and returns: not JSON, or not a dict.
RecvMalformed(s) ==
    /\ CanRecv
    /\ DecodeOk(s)
    /\ ~ParseOk(s)
    /\ nframes' = nframes + 1
    /\ lastFrame' = MkFrame(nframes + 1, s)
    /\ lastTopics' = {}
    /\ lastInvoked' = <<>>
    /\ lastRaised' = {}
    /\ UNCHANGED <<rpc, ws_client, live, attempts, failures, subs, cpc, echo,
                   response, received, sentOn, callSeq, hcall>>
    /\ UNCHANGED chainVars

\* line 45: the object is emitted on "onebot_resp".  The response handlers
\* never suspend, so the whole emit runs before anything else does.
RecvResponse(s) ==
    LET f == MkFrame(nframes + 1, s)
        invoked == BusInvoked(subs, f)
        matched == {c \in Range(invoked) : response_handler(c, f) = "match"}
        raised == {c \in Range(invoked) : response_handler(c, f) = "raise"}
    IN  /\ CanRecv
        /\ DecodeOk(s)
        /\ ParseOk(s)
        /\ IsResponseFrame(f)
        /\ nframes' = nframes + 1
        /\ lastFrame' = f
        /\ lastTopics' = {"onebot_resp"}
        /\ lastInvoked' = invoked
        /\ lastRaised' = raised
        /\ response' = [c \in Calls |-> IF c \in matched THEN f ELSE response[c]]
        /\ received' = [c \in Calls |-> IF c \in matched THEN TRUE ELSE received[c]]
        /\ subs' = AfterUnsubscribe(subs, matched)
        /\ IF BusPropagates(subs, f) /\ raised # {}
           THEN rpc' = "terminated" /\ live' = live \ {ws_client}
           ELSE UNCHANGED <<rpc, live>>
        /\ UNCHANGED <<ws_client, attempts, failures, cpc, echo, sentOn,
                       callSeq, hcall>>
        /\ UNCHANGED chainVars

\* line 47: the object is emitted on the public "onebot_event" topic and the
\* emit is awaited.  The facade's handler for it either finishes without
\* suspending (h = NoCall) or awaits a Call h of its own, as
\* examples/bot.py's handle_message_group does; that Call runs inside the
\* receive task, which stays suspended in the emit until the handler ends.
RecvEvent(s, h, e) ==
    LET f == MkFrame(nframes + 1, s)
    IN  /\ CanRecv
        /\ DecodeOk(s)
        /\ ParseOk(s)
        /\ ~IsResponseFrame(f)
        /\ nframes' = nframes + 1
        /\ lastFrame' = f
        /\ lastTopics' = {"onebot_event"}
        /\ lastInvoked' = <<>>
        /\ lastRaised' = {}
        /\ IF h = NoCall
           THEN UNCHANGED <<rpc, hcall, cpc, echo, subs, sentOn, callSeq>>
           ELSE /\ cpc[h] = "idle"
                /\ CallEnter(h, e)
                /\ IF cpc'[h] = "sending" /\ EmitAwaitsHandlers
                   THEN rpc' = "handler" /\ hcall' = h
                   ELSE UNCHANGED <<rpc, hcall>>
        /\ UNCHANGED <<ws_client, live, attempts, failures, response, received>>
        /\ UNCHANGED chainVars

(* -------------------- MessageComponent / MessageChain ----------------- *)

\* Python strings are sequences of characters here.
S_CQ == <<"[", "C", "Q", ":">>
S_at == <<"a", "t">>
S_qq == <<"q", "q">>
S_face == <<"f", "a", "c", "e">>
S_id == <<"i", "d">>
S_dice == <<"d", "i", "c", "e">>
S_text == <<"t", "e", "x", "t">>
S_atCode == <<"[", "C", "Q", ":", "a", "t", ",", "q", "q", "=", "1", "]">>
S_music == <<"m", "u", "s", "i", "c">>
S_type == <<"t", "y", "p", "e">>
S_comp_type == <<"c", "o", "m", "p", "_", "t", "y", "p", "e">>
S_hello == <<"h", "e", "l", "l", "o">>
S_hello_world == <<"h", "e", "l", "l", "o", " ", "w", "o", "r", "l", "d">>
S_xyz == <<"x", "y", "z">>

\* Component values: the class (comp_type) and the fields model_fields lists
\* after comp_type, in declaration order, each with its value as str() gives it.
Text(s) == [tag |-> "component", comp_type |-> S_text,
            fields |-> << [k |-> S_text, v |-> s] >>]
At(qq) == [tag |-> "component", comp_type |-> S_at,
           fields |-> << [k |-> S_qq, v |-> qq] >>]
Face(id) == [tag |-> "component", comp_type |-> S_face,
             fields |-> << [k |-> S_id, v |-> id] >>]
Dice == [tag |-> "component", comp_type |-> S_dice, fields |-> <<>>]
Music(type, id) == [tag |-> "component", comp_type |-> S_music,
                    fields |-> << [k |-> S_type, v |-> type],
                                  [k |-> S_id, v |-> id] >>]

Str(s) == [tag |-> "str", s |-> s]
\* A value that is neither a component nor a str (None, an int).
Other == [tag |-> "other"]

Components == {Text(<<"a">>), Text(<<"b">>), Text(S_atCode),
               Text(S_hello_world), At(<<"1">>), Face(<<"1">>), Dice,
               Music(<<"q", "q">>, <<"1">>)}
Strings == {Str(<<>>), Str(<<"a">>), Str(<<"a", "b">>), Str(<<"b", "a">>),
            Str(S_atCode), Str(S_hello), Str(S_xyz)}
Values == Components \cup Strings \cup {Other}

\* ",".join(params)
RECURSIVE JoinParams(_)
JoinParams(fs) ==
    IF fs = <<>> THEN <<>>
    ELSE LET p == fs[1].k \o <<"=">> \o fs[1].v
         IN  IF Len(fs) = 1 THEN p ELSE p \o <<",">> \o JoinParams(Tail(fs))

\* MessageComponent.to_cqcode, and Text's override of it.
to_cqcode(c) ==
    IF c.comp_type = S_text
    THEN c.fields[1].v
    ELSE S_CQ \o c.comp_type \o <<",">> \o JoinParams(c.fields) \o <<"]">>

\* A faulty variant: components are compared field by field.
ComponentEq_Structural(self, another, sameObject) ==
    IF another.tag = "component" THEN self = another
    ELSE IF another.tag = "str" THEN to_cqcode(self) = another.s
    ELSE sameObject

\* MessageComponent.__eq__(self, another); sameObject says whether the two
\* are one object.
ComponentEq(self, another, sameObject) ==
    IF another.tag = "component" THEN to_cqcode(self) = to_cqcode(another)
    ELSE IF another.tag = "str" THEN to_cqcode(self) = another.s
    ELSE sameObject

\* MessageChain.to_cqcode: "".join of the components' renderings.
RECURSIVE ChainCqcode(_)
ChainCqcode(ch) ==
    IF ch = <<>> THEN <<>> ELSE to_cqcode(ch[1]) \o ChainCqcode(Tail(ch))

\* A faulty variant: startswith in place of `in`.
IsSubstring_Prefix(s, t) ==
    Len(s) <= Len(t) /\ SubSeq(t, 1, Len(s)) = s

\* s in t, for two strings.
IsSubstring(s, t) ==
    \E i \in 0..(Len(t) - Len(s)) : SubSeq(t, i + 1, i + Len(s)) = s

Bool(b) == IF b THEN "true" ELSE "false"

RECURSIVE ChainsUpTo(_)
ChainsUpTo(n) ==
    IF n = 0 THEN {<<>>}
    ELSE LET shorter == ChainsUpTo(n - 1)
         IN  shorter \cup {Append(ch, c) : ch \in shorter, c \in Components}

\* A serialization outcome: not attempted, an exception, or the dict.
NotSerialized == [outcome |-> "none", type |-> <<>>, data |-> {}]
Raises(exc) == [outcome |-> exc, type |-> <<>>, data |-> {}]

\* model_dump(mode="json", exclude={"type"}) over the component's fields:
\* exclude names fields, so it keeps comp_type and drops a field named
\* `type`.
DumpExcludingType(c) ==
    {[k |-> S_comp_type, v |-> c.comp_type]}
    \cup {c.fields[i] : i \in {j \in 1..Len(c.fields) : c.fields[j].k # S_type}}

\* MessageComponent.model_ser: {"type": comp_type, "data": model_dump(...)}.
model_ser(c) ==
    [outcome |-> "dict", type |-> c.comp_type, data |-> DumpExcludingType(c)]

ChainIdle ==
    /\ chain = <<>>
    /\ obj = Other
    /\ hpc = "idle"
    /\ depth = 0
    /\ hres = "none"
    /\ ser = NotSerialized

\* A chain and an argument, before has / __contains__ is evaluated.
ChainInit ==
    /\ chain \in ChainsUpTo(MaxChainLen)
    /\ obj \in Values
    /\ hpc = "ready"
    /\ depth = 0
    /\ hres = "none"
    /\ ser = NotSerialized

\* chain.has(obj) is called.
EnterHas ==
    /\ hpc = "ready"
    /\ hpc' = "has"
    /\ depth' = 1
    /\ UNCHANGED <<chain, obj, hres, ser>>
    /\ UNCHANGED adapterVars

\* `obj in chain` is evaluated: MessageChain.__contains__ is called.
EnterContains ==
    /\ hpc = "ready"
    /\ hpc' = "contains"
    /\ depth' = 1
    /\ UNCHANGED <<chain, obj, hres, ser>>
    /\ UNCHANGED adapterVars

\* chain[0] == obj is evaluated.  An operand that is neither a component
\* nor a str cannot be the object `self`, which is a component.
Compare ==
    /\ hpc = "ready"
    /\ chain # <<>>
    /\ hres' = Bool(ComponentEq(chain[1], obj,
                                obj.tag = "component" /\ obj = chain[1]))
    /\ hpc' = "compared"
    /\ UNCHANGED <<chain, obj, depth, ser>>
    /\ UNCHANGED adapterVars

\* chain[0] is serialized (model_dump / model_dump_json): pydantic calls
\* model_ser, whose own call of self.model_dump either runs model_ser again
\* without end (an exception) or dumps the fields; both are outcomes.
Serialize ==
    /\ hpc = "ready"
    /\ chain # <<>>
    /\ ser' \in {Raises("RecursionError"), model_ser(chain[1])}
    /\ hpc' = "serialized"
    /\ UNCHANGED <<chain, obj, depth, hres>>
    /\ UNCHANGED adapterVars

\* chain.to_dict(): [x.to_dict() for x in self]; MessageComponent defines
\* no to_dict, so the first element raises AttributeError.
ChainToDict ==
    /\ hpc = "ready"
    /\ ser' = IF chain = <<>>
              THEN [outcome |-> "list", type |-> <<>>, data |-> {}]
              ELSE Raises("AttributeError")
    /\ hpc' = "listed"
    /\ UNCHANGED <<chain, obj, depth, hres>>
    /\ UNCHANGED adapterVars

\* MessageChain.has: a str is looked up in the rendering; for anything else
\* `obj in self` is evaluated, which calls MessageChain.__contains__ (the
\* override, not list.__contains__), in a new interpreter frame.
HasBody ==
    /\ hpc = "has"
    /\ IF obj.tag = "str"
       THEN /\ hres' = Bool(IsSubstring(obj.s, ChainCqcode(chain)))
            /\ hpc' = "done"
            /\ depth' = 0
       ELSE IF depth >= RecursionLimit
       THEN /\ hres' = "RecursionError"
            /\ hpc' = "done"
            /\ depth' = 0
       ELSE /\ hpc' = "contains"
            /\ depth' = depth + 1
            /\ UNCHANGED hres
    /\ UNCHANGED <<chain, obj, ser>>
    /\ UNCHANGED adapterVars

\* MessageChain.__contains__: return self.has(obj), in a new frame.
ContainsBody ==
    /\ hpc = "contains"
    /\ IF depth >= RecursionLimit
       THEN /\ hres' = "RecursionError"
            /\ hpc' = "done"
            /\ depth' = 0
       ELSE /\ hpc' = "has"
            /\ depth' = depth + 1
            /\ UNCHANGED hres
    /\ UNCHANGED <<chain, obj, ser>>
    /\ UNCHANGED adapterVars

(* --------------------------- specifications --------------------------- *)

Init == AdapterInit /\ ChainIdle

Next ==
    \/ Start
    \/ ConnectOk
    \/ ConnectFail
    \/ Close
    \/ RecvClosed
    \/ SleepDone
    \/ \E c \in Calls, e \in Tokens : CallStart(c, e)
    \/ \E c \in Calls : SendDone(c)
    \/ \E c \in Calls : SendFail(c)
    \/ \E c \in Calls : CallReturn(c)
    \/ \E s \in FrameShapes : RecvUndecodable(s)
    \/ \E s \in FrameShapes : RecvMalformed(s)
    \/ \E s \in FrameShapes : RecvResponse(s)
    \/ \E s \in FrameShapes, h \in Calls \cup {NoCall}, e \in Tokens :
          RecvEvent(s, h, e)

Spec == Init /\ [][Next]_vars

\* The message model on its own: one evaluation of has / __contains__.
InitChain == AdapterInit /\ ChainInit

NextChain ==
    \/ EnterHas
    \/ EnterContains
    \/ Compare
    \/ Serialize
    \/ ChainToDict
    \/ HasBody
    \/ ContainsBody

SpecChain == InitChain /\ [][NextChain]_vars


(* ------------------------------- claims ------------------------------- *)

InFlight(c) == cpc[c] \in {"sending", "waiting", "returned"}

\* C1: of two Calls in flight on the adapter with distinct tokens, one that
\* has returned holds a frame that was received, whose echo is its own token
\* and not the other's, and that is not the frame the other Call holds;
\* whichever of the two responses arrived first.
C1_OwnResponseOnly ==
    \A c \in Calls, d \in Calls :
        (c # d /\ echo[c] # echo[d] /\ cpc[c] = "returned" /\ InFlight(d))
        => /\ response[c].id > 0
           /\ response[c].echo = echo[c]
           /\ response[c].echo # echo[d]
           /\ response[c] # response[d]

\* Both Calls returned, the one issued first with the frame that came last.
C1_Witness ==
    /\ callSeq = <<"c1", "c2">>
    /\ echo["c1"] # echo["c2"]
    /\ cpc["c1"] = "returned"
    /\ cpc["c2"] = "returned"
    /\ response["c1"].id > response["c2"].id
    /\ response["c2"].id > 0

\* C2 (as claimed): a failed connection attempt never stops the reconnect
\* loop: after any number of failed attempts the receive task is still in
\* the loop (waiting out the interval, attempting again, or connected).
C2_FailedAttemptKeepsLoop ==
    failures >= 1 => rpc \in {"backoff", "connecting", "connected", "handler"}

\* C3 (as claimed): while a Call is suspended (in send or on its gate) the
\* receive task is not suspended behind it, whichever task issued the Call.
C3_ReceiveLoopNotBlocked ==
    \A c \in Calls :
        cpc[c] \in {"sending", "waiting"} => ~(rpc = "handler" /\ hcall = c)

\* C4 (as claimed): a step that receives a malformed frame publishes it to
\* no topic, leaves the receive task where it was, and changes neither the
\* connection nor the bus nor any Call.
C4_MalformedDropped ==
    [][ (/\ nframes' = nframes + 1
         /\ lastFrame'.kind \in {"badutf8", "notjson", "nonobject"})
        => /\ lastTopics' = {}
           /\ rpc' = rpc
           /\ ws_client' = ws_client
           /\ live' = live
           /\ UNCHANGED <<subs, cpc, response, received, sentOn, hcall>> ]_vars

\* C5: a Call issued while no connection is established (none yet, or the
\* current handle closed) fails in that same step: it is not suspended, no
\* frame is written, no subscriber is added, and the adapter is unchanged.
C5_FailsWithoutConnection ==
    [][ \A c \in Calls :
          (/\ cpc[c] = "idle"
           /\ cpc'[c] # "idle"
           /\ (ws_client = NoConn \/ ws_client \notin live))
          => /\ cpc'[c] = "failed"
             /\ subs' = subs
             /\ sentOn' = sentOn
             /\ UNCHANGED <<rpc, ws_client, live, attempts, failures,
                            response, received, hcall>> ]_vars

\* A Call issued after another had found the connection open, failed, with
\* the handle closed, nothing written and nothing subscribed for it.
C5_Witness ==
    /\ callSeq = <<"c1", "c2">>
    /\ cpc["c1"] = "waiting"
    /\ cpc["c2"] = "failed"
    /\ ws_client # NoConn
    /\ ws_client \notin live
    /\ sentOn["c2"] = <<>>
    /\ subs = <<"c1">>

\* C6 (as claimed): the receive task only moves along
\* disconnected -> connecting -> connected -> (closed) backoff -> connecting,
\* suspending in and resuming from a handler while connected; it has no
\* terminal state.
C6_LifecycleHasNoTerminalState ==
    [][ rpc' # rpc =>
          <<rpc, rpc'>> \in {<<"disconnected", "connecting">>,
                             <<"connecting", "connected">>,
                             <<"connected", "backoff">>,
                             <<"backoff", "connecting">>,
                             <<"connected", "handler">>,
                             <<"handler", "connected">>} ]_vars

\* C7 (as claimed): has(c) and `c in chain`, for a component c, end with
\* true exactly when some element of the chain equals c under component
\* equality, and with false otherwise.
C7_HasComponentIsMembership ==
    (hpc = "done" /\ obj.tag = "component")
    => hres = Bool(\E i \in 1..Len(chain) : ComponentEq(chain[i], obj, FALSE))

\* C8: a decoded JSON object is published to exactly one topic: onebot_resp
\* when detail_type and sub_type are both present and not null, onebot_event
\* otherwise, whatever its echo.
C8_RoutedToExactlyOneTopic ==
    lastFrame.kind = "object"
    => LET both == lastFrame.dt = "val" /\ lastFrame.st = "val"
       IN  /\ Cardinality(lastTopics) = 1
           /\ ("onebot_resp" \in lastTopics) <=> both
           /\ ("onebot_event" \in lastTopics) <=> ~both

\* An object with both fields and no echo went to onebot_resp.
C8_Witness ==
    /\ lastFrame.kind = "object"
    /\ lastFrame.dt = "val"
    /\ lastFrame.st = "val"
    /\ lastFrame.echo = "absent"
    /\ lastTopics = {"onebot_resp"}

\* C9: a Call returns only with a frame of its own echo that was emitted on
\* onebot_resp; and a Call suspended on its gate stays suspended, with its
\* subscriber registered, through every step (closes and reconnections
\* included) that does not emit such a frame.
C9_ReturnsOnlyAfterMatch ==
    [][ \A c \in Calls :
          LET matchNow == /\ nframes' = nframes + 1
                          /\ "onebot_resp" \in lastTopics'
                          /\ lastFrame'.echo = echo[c]
          IN  /\ (cpc[c] # "returned" /\ cpc'[c] = "returned")
                 => (response[c].id > 0 /\ response[c].echo = echo[c])
              /\ response'[c] # response[c]
                 => (matchNow /\ response'[c] = lastFrame')
              /\ (cpc[c] = "waiting" /\ ~received[c] /\ ~matchNow)
                 => /\ cpc'[c] = "waiting"
                    /\ ~received'[c]
                    /\ c \in Range(subs') ]_vars

\* A Call still suspended and subscribed after the connection it sent on
\* closed and a new one was established.
C9_Witness ==
    \E c \in Calls :
        /\ cpc[c] = "waiting"
        /\ ~received[c]
        /\ c \in Range(subs)
        /\ sentOn[c] = <<1>>
        /\ ws_client = 2
        /\ ws_client \in live
        /\ rpc = "connected"

RespStep == nframes' = nframes + 1 /\ "onebot_resp" \in lastTopics'

\* C11: the adapter holds one connection reference and at most one
\* connection is live, the one it refers to; a new connection replaces the
\* reference while the previous one is closed, and from then on request
\* frames are written to, and frames read from, the current connection only.
C11_SingleConnection ==
    /\ [](Cardinality(live) <= 1 /\ live \subseteq {ws_client})
    /\ [][ /\ ws_client' # ws_client
              => /\ ws_client' \notin live
                 /\ ws_client \notin live'
                 /\ live' = {ws_client'}
           /\ \A c \in Calls :
                sentOn'[c] # sentOn[c]
                => /\ sentOn'[c] = Append(sentOn[c], ws_client')
                   /\ ws_client' \in live'
           /\ nframes' = nframes + 1
              => (ws_client \in live /\ ws_client' = ws_client) ]_vars

\* After a reconnection: one Call wrote to the first connection, the other
\* to the second, and the response to the latter was read (from the second).
C11_Witness ==
    /\ ws_client = 2
    /\ live = {2}
    /\ sentOn["c1"] = <<1>>
    /\ sentOn["c2"] = <<2>>
    /\ response["c2"].id > 0

\* C15: a Call that fails the connection check neither subscribes nor
\* sends; a request frame is written at most once, only with the connection
\* open, and from the moment it is written until the response is captured
\* the Call's subscriber is registered, so a response with its echo emitted
\* in that time is captured.
C15_CheckSubscribeThenSendOnce ==
    /\ [](\A c \in Calls :
            /\ Len(sentOn[c]) <= 1
            /\ cpc[c] = "failed" => (sentOn[c] = <<>> /\ c \notin Range(subs))
            /\ (sentOn[c] # <<>> /\ ~received[c]) => c \in Range(subs))
    /\ [][ \A c \in Calls :
             /\ sentOn'[c] # sentOn[c] => (ws_client \in live /\ cpc[c] = "idle")
             /\ (sentOn[c] # <<>> /\ ~received[c] /\ RespStep
                 /\ lastFrame'.echo = echo[c])
                => (received'[c] /\ response'[c] = lastFrame') ]_vars

\* A response that arrived while the Call was still suspended in send was
\* captured.
C15_Witness ==
    \E c \in Calls :
        /\ cpc[c] = "sending"
        /\ Len(sentOn[c]) = 1
        /\ received[c]
        /\ response[c].echo = echo[c]

\* C16: when a frame is emitted on onebot_resp, a subscriber whose token
\* differs from its echo keeps its registration and its Call is untouched;
\* a subscriber whose token it carries captures it, sets the gate and is
\* removed; a Call no longer subscribed is not invoked; and a captured
\* response is never replaced.
C16_SubscriberIsOneShot ==
    [][ \A c \in Calls :
          /\ RespStep
             => LET f == lastFrame'
                IN  /\ (c \in Range(subs) /\ f.echo # echo[c])
                       => /\ c \in Range(subs')
                          /\ response'[c] = response[c]
                          /\ received'[c] = received[c]
                    /\ (c \in Range(subs) /\ f.echo = echo[c])
                       => /\ response'[c] = f
                          /\ received'[c]
                          /\ c \notin Range(subs')
                    /\ c \notin Range(subs)
                       => /\ c \notin Range(lastInvoked')
                          /\ c \notin Range(subs')
                          /\ response'[c] = response[c]
          /\ response[c].id > 0 => response'[c] = response[c] ]_vars

\* A second frame with the token of a Call that a first frame completed
\* was emitted and not delivered to that Call.
C16_Witness ==
    \E c \in Calls :
        /\ response[c].id = 1
        /\ lastFrame.id = 2
        /\ lastFrame.echo = echo[c]
        /\ "onebot_resp" \in lastTopics
        /\ c \notin Range(lastInvoked)

\* C17: no step of a Call changes self.ws_client; it changes only when the
\* receive loop establishes a connection.
C17_OnlyReceiveLoopWritesHandle ==
    [][ /\ ws_client' # ws_client
           => /\ rpc = "connecting"
              /\ rpc' = "connected"
              /\ UNCHANGED <<cpc, subs, sentOn, response, received>>
        /\ \A c \in Calls : cpc'[c] # cpc[c] => ws_client' = ws_client ]_vars

\* One Call returned and one failed, with the reference still the second
\* connection the receive loop stored.
C17_Witness ==
    \E c \in Calls, d \in Calls :
        /\ cpc[c] = "returned"
        /\ cpc[d] = "failed"
        /\ ws_client = 2

\* C18 (as claimed): every subscriber of onebot_resp belongs to a Call that
\* is still suspended (in send or on its gate) without a response; a Call
\* that returned, failed the check or failed in send has no subscriber.
C18_SubscribersBelongToPendingCalls ==
    \A c \in Calls :
        /\ c \in Range(subs) => (cpc[c] \in {"sending", "waiting"} /\ ~received[c])
        /\ cpc[c] \in {"returned", "failed", "senderr"} => c \notin Range(subs)

\* C19: closing the connection, leaving it, sleeping and reconnecting leave
\* a Call suspended on its gate as it is, subscribed; and a frame with its
\* echo emitted on onebot_resp afterwards, from whichever connection, is
\* captured as its response, with which it then returns.
C19_PendingCallSurvivesReconnect ==
    [][ \A c \in Calls :
          /\ (cpc[c] = "waiting" /\ ~received[c] /\ nframes' = nframes)
             => /\ cpc'[c] = "waiting"
                /\ ~received'[c]
                /\ c \in Range(subs')
          /\ (cpc[c] = "waiting" /\ ~received[c] /\ RespStep
              /\ lastFrame'.echo = echo[c])
             => /\ received'[c]
                /\ response'[c] = lastFrame'
          /\ (cpc[c] = "waiting" /\ cpc'[c] # "waiting")
             => (cpc'[c] = "returned" /\ received[c] /\ response'[c] = response[c]) ]_vars

\* A Call that sent on the first connection returned with a frame that
\* was read after the response to a Call sent on the second connection, so
\* from a connection established after its own had closed.
C19_Witness ==
    /\ cpc["c1"] = "returned"
    /\ sentOn["c1"] = <<1>>
    /\ sentOn["c2"] = <<2>>
    /\ response["c2"].id = 1
    /\ response["c1"].id = 2
    /\ response["c1"].echo = echo["c1"]

\* C20: when two subscribed Calls share a token, a frame with that token
\* emitted on onebot_resp is captured by both, sets both gates and removes
\* both subscribers; a later frame with that token is delivered to neither
\* and changes neither response.
C20_SharedTokenCompletesBoth ==
    [][ RespStep =>
          \A c \in Calls, d \in Calls :
            (c # d /\ echo[c] = echo[d] /\ lastFrame'.echo = echo[c])
            => /\ (c \in Range(subs) /\ d \in Range(subs))
                  => /\ response'[c] = lastFrame'
                     /\ response'[d] = lastFrame'
                     /\ received'[c] /\ received'[d]
                     /\ c \notin Range(subs') /\ d \notin Range(subs')
               /\ (response[c].id > 0 /\ response[d] = response[c])
                  => /\ c \notin Range(lastInvoked')
                     /\ d \notin Range(lastInvoked')
                     /\ response'[c] = response[c]
                     /\ response'[d] = response[d] ]_vars

\* Both Calls returned with the first frame, and a second frame with their
\* token found no subscriber.
C20_Witness ==
    /\ echo["c1"] = echo["c2"]
    /\ cpc["c1"] = "returned"
    /\ cpc["c2"] = "returned"
    /\ response["c1"].id = 1
    /\ response["c2"] = response["c1"]
    /\ lastFrame.id = 2
    /\ lastFrame.echo = echo["c1"]
    /\ "onebot_resp" \in lastTopics
    /\ lastInvoked = <<>>


\* C12: a == b for a component a is, for a component b, equality of the
\* two renderings whatever their kinds and fields; for a str, equality of
\* a's rendering with it; for anything else false, as no such value is the
\* object a.  Text("a") == "a", Text("a") # Text("b"), and a component
\* equals one of the same kind and fields.
C12_EqualityIsRenderingEquality ==
    hpc = "compared"
    => LET a == chain[1]
       IN  /\ obj.tag = "component"
              => (hres = "true" <=> to_cqcode(a) = to_cqcode(obj))
           /\ obj.tag = "str" => (hres = "true" <=> to_cqcode(a) = obj.s)
           /\ obj.tag = "other" => hres = "false"
           /\ (a = Text(<<"a">>) /\ obj = Str(<<"a">>)) => hres = "true"
           /\ (a = Text(<<"a">>) /\ obj = Text(<<"b">>)) => hres = "false"
           /\ (a = At(<<"1">>) /\ obj = Str(S_atCode)) => hres = "true"
           /\ (obj.tag = "component" /\ obj.comp_type = a.comp_type
               /\ obj.fields = a.fields) => hres = "true"

\* A text and a mention of different kinds and fields, equal because they
\* render alike.
C12_Witness ==
    /\ hpc = "compared"
    /\ chain[1] = Text(S_atCode)
    /\ obj = At(<<"1">>)
    /\ hres = "true"

\* C13: has(s) and `s in chain`, for a str s, give true exactly when s
\* occurs in the renderings of the chain's components joined in order, so
\* also across two components; [Text("hello world")] has "hello" and has
\* not "xyz".
C13_HasStringIsSubstringOfRendering ==
    (hpc = "done" /\ obj.tag = "str")
    => LET r == ChainCqcode(chain)
       IN  /\ hres = Bool(\E i \in 0..Len(r), j \in 0..Len(r) :
                            i <= j /\ SubSeq(r, i + 1, j) = obj.s)
           /\ chain = <<Text(S_hello_world)>>
              => /\ r = S_hello_world
                 /\ obj = Str(S_hello) => hres = "true"
                 /\ obj = Str(S_xyz) => hres = "false"
           /\ (chain = <<Text(<<"a">>), Text(<<"b">>)>>
               /\ obj = Str(<<"a", "b">>)) => hres = "true"
           /\ (chain = <<Text(<<"a">>), Text(<<"b">>)>>
               /\ obj = Str(<<"b", "a">>)) => hres = "false"

\* A match that spans two components.
C13_Witness ==
    /\ hpc = "done"
    /\ chain = <<Text(<<"b">>), Text(<<"a">>)>>
    /\ obj = Str(<<"b", "a">>)
    /\ hres = "true"

\* C14 (as claimed): serializing a component gives an object with the keys
\* type and data, type the kind discriminator and data every other field
\* of the component, a field named `type` included, and never the kind
\* discriminator.
C14_SerializesTypeAndAllFields ==
    hpc = "serialized"
    => LET c == chain[1]
       IN  /\ ser.outcome = "dict"
           /\ ser.type = c.comp_type
           /\ ser.data = Range(c.fields)
           /\ \A e \in ser.data : e.k # S_comp_type

====
